---------------------------- MODULE Spec2Model ----------------------------
(***************************************************************************)
(* A model of diagrams/flowcharts.py: the two-stage pipeline               *)
(*   generate_meeting_flowchart -> meeting_flowchart.md ->                 *)
(*   render_mermaid_to_svg -> image file | fallback text file.             *)
(*                                                                         *)
(* Text (Python str) is a sequence of Unicode code points, bytes objects   *)
(* and file contents are sequences of 0..255, file names and URLs are      *)
(* text.  The two collaborators (the completion service and the rendering  *)
(* service) are stubs fixed at Init: the completion either replies with a  *)
(* text or fails; the rendering request is answered with a body, with an   *)
(* HTTP error, or fails below HTTP (URLError).                             *)
(*                                                                         *)
(* Text-mode files are modelled as on a POSIX system with a UTF-8 locale:  *)
(* open(name, 'w').write(s) stores the UTF-8 encoding of s, no newline     *)
(* translation.  Filesystem errors are not modelled.                       *)
(***************************************************************************)
EXTENDS Naturals, Sequences, FiniteSets

VARIABLES
    pc,               \* position of the program
    run,              \* number of the current run of the script (Spec)
    completion_stub,  \* what client.chat.completions.create does
    render_stub,      \* what urllib.request.urlopen does
    files,            \* the disk: file name |-> contents (bytes)
    files0,           \* the disk when the current run (or call) started
    flowchart_code,   \* __main__'s flowchart_code
    mermaid_code,     \* render_mermaid_to_svg's argument
    output_file,      \* render_mermaid_to_svg's argument
    url,              \* render_mermaid_to_svg's url
    text_file,        \* render_mermaid_to_svg's text_file
    events            \* the run's externally visible events, in order

vars == <<pc, run, completion_stub, render_stub, files, files0, flowchart_code,
          mermaid_code, output_file, url, text_file, events>>

---------------------------------------------------------------------------
(* Bounds of the model.                                                    *)

\* longest completion reply / description text, in code points
MaxLen == 2
\* longest response body of the rendering service, in bytes
MaxBody == 2
\* an output_file name is made of at most this many pieces of NamePieces
MaxParts == 2
\* the script is run at most this many times in a row
MaxRuns == 2

---------------------------------------------------------------------------
(* Python's library functions, as the code uses them.                      *)

\* str.encode('utf-8') of one code point (a Unicode scalar value)
utf8_encode_char(c) ==
    IF c < 128 THEN <<c>>
    ELSE IF c < 2048 THEN <<192 + (c \div 64), 128 + (c % 64)>>
    ELSE IF c < 65536
         THEN <<224 + (c \div 4096), 128 + ((c \div 64) % 64), 128 + (c % 64)>>
    ELSE <<240 + (c \div 262144), 128 + ((c \div 4096) % 64),
           128 + ((c \div 64) % 64), 128 + (c % 64)>>

\* str.encode('utf-8')
RECURSIVE utf8_encode(_)
utf8_encode(s) ==
    IF s = <<>> THEN <<>>
    ELSE utf8_encode_char(Head(s)) \o utf8_encode(Tail(s))

\* bytes.decode('utf-8'), strict: ok = FALSE stands for UnicodeDecodeError
RECURSIVE utf8_decode(_)
utf8_decode(b) ==
    IF b = <<>> THEN [ok |-> TRUE, text |-> <<>>]
    ELSE
      LET b0 == b[1]
          n == Len(b)
          width == IF b0 < 128 THEN 1
                   ELSE IF b0 >= 194 /\ b0 <= 223 THEN 2
                   ELSE IF b0 >= 224 /\ b0 <= 239 THEN 3
                   ELSE IF b0 >= 240 /\ b0 <= 244 THEN 4
                   ELSE 0
          wellformed ==
              /\ width > 0
              /\ n >= width
              /\ \A i \in 2..width : b[i] >= 128 /\ b[i] <= 191
              /\ (b0 = 224 => b[2] >= 160)
              /\ (b0 = 237 => b[2] <= 159)
              /\ (b0 = 240 => b[2] >= 144)
              /\ (b0 = 244 => b[2] <= 143)
          cp == IF width = 1 THEN b0
                ELSE IF width = 2 THEN (b0 - 192) * 64 + (b[2] - 128)
                ELSE IF width = 3
                     THEN (b0 - 224) * 4096 + (b[2] - 128) * 64 + (b[3] - 128)
                ELSE (b0 - 240) * 262144 + (b[2] - 128) * 4096
                     + (b[3] - 128) * 64 + (b[4] - 128)
          rest == utf8_decode(SubSeq(b, width + 1, n))
      IN  IF ~wellformed THEN [ok |-> FALSE, text |-> <<>>]
          ELSE IF ~rest.ok THEN rest
          ELSE [ok |-> TRUE, text |-> <<cp>> \o rest.text]

\* the URL-safe base64 alphabet: A-Z a-z 0-9 - _
B64Alphabet ==
    <<65, 66, 67, 68, 69, 70, 71, 72, 73, 74, 75, 76, 77, 78, 79, 80, 81, 82,
      83, 84, 85, 86, 87, 88, 89, 90, 97, 98, 99, 100, 101, 102, 103, 104, 105,
      106, 107, 108, 109, 110, 111, 112, 113, 114, 115, 116, 117, 118, 119,
      120, 121, 122, 48, 49, 50, 51, 52, 53, 54, 55, 56, 57, 45, 95>>

\* the character of a 6-bit group
B64Char(i) == B64Alphabet[i + 1]

\* the padding character '='
B64Pad == <<61>>

\* base64.urlsafe_b64encode without the trailing '=' padding
RECURSIVE b64encode_unpadded(_)
b64encode_unpadded(b) ==
    LET n == Len(b) IN
    IF n = 0 THEN <<>>
    ELSE IF n = 1
         THEN <<B64Char(b[1] \div 4), B64Char((b[1] % 4) * 16)>>
    ELSE IF n = 2
         THEN <<B64Char(b[1] \div 4),
                B64Char((b[1] % 4) * 16 + (b[2] \div 16)),
                B64Char((b[2] % 16) * 4)>>
    ELSE <<B64Char(b[1] \div 4),
           B64Char((b[1] % 4) * 16 + (b[2] \div 16)),
           B64Char((b[2] % 16) * 4 + (b[3] \div 64)),
           B64Char(b[3] % 64)>> \o b64encode_unpadded(SubSeq(b, 4, n))

\* base64.urlsafe_b64encode: bytes -> bytes (ASCII), 3 bytes to 4 characters,
\* the last group padded with '='
RECURSIVE urlsafe_b64encode(_)
urlsafe_b64encode(b) ==
    LET n == Len(b) IN
    IF n = 0 THEN <<>>
    ELSE IF n = 1
         THEN <<B64Char(b[1] \div 4), B64Char((b[1] % 4) * 16)>>
              \o B64Pad \o B64Pad
    ELSE IF n = 2
         THEN <<B64Char(b[1] \div 4),
                B64Char((b[1] % 4) * 16 + (b[2] \div 16)),
                B64Char((b[2] % 16) * 4)>> \o B64Pad
    ELSE <<B64Char(b[1] \div 4),
           B64Char((b[1] % 4) * 16 + (b[2] \div 16)),
           B64Char((b[2] % 16) * 4 + (b[3] \div 64)),
           B64Char(b[3] % 64)>> \o urlsafe_b64encode(SubSeq(b, 4, n))

\* str.isspace of one character: the whitespace str.strip() removes
IsSpace(c) ==
    c \in (9..13) \cup (28..32) \cup {133, 160, 5760} \cup (8192..8202)
          \cup {8232, 8233, 8239, 8287, 12288}

\* str.lstrip()
RECURSIVE lstrip(_)
lstrip(s) ==
    IF s # <<>> /\ IsSpace(Head(s)) THEN lstrip(Tail(s)) ELSE s

\* str.rstrip()
RECURSIVE rstrip(_)
rstrip(s) ==
    IF s # <<>> /\ IsSpace(s[Len(s)])
    THEN rstrip(SubSeq(s, 1, Len(s) - 1)) ELSE s

\* str.lstrip() in the place of str.strip(): trailing whitespace is kept
strip_left_only(s) == lstrip(s)

\* str.strip()
strip(s) == rstrip(lstrip(s))

\* s.startswith(p)
StartsWith(s, p) == Len(s) >= Len(p) /\ SubSeq(s, 1, Len(p)) = p

\* str.replace(old, new): every non-overlapping occurrence, left to right
RECURSIVE replace(_, _, _)
replace(s, old, new) ==
    IF s = <<>> THEN <<>>
    ELSE IF StartsWith(s, old)
         THEN new \o replace(SubSeq(s, Len(old) + 1, Len(s)), old, new)
    ELSE <<Head(s)>> \o replace(Tail(s), old, new)

\* open(name, 'a').write(data): the contents are kept and data is added
OpenAppend(fs, name, data) ==
    [n \in DOMAIN fs \cup {name} |->
        IF n = name
        THEN (IF name \in DOMAIN fs THEN fs[name] ELSE <<>>) \o data
        ELSE fs[n]]

\* with open(name, 'w') as f: f.write(...): the file is created or truncated
\* and holds exactly data when it is closed
OpenWrite(fs, name, data) ==
    [n \in DOMAIN fs \cup {name} |-> IF n = name THEN data ELSE fs[n]]


---------------------------------------------------------------------------
(* Python's exception classes, as the except clause tests them.            *)

\* the classes an exception is an instance of (urllib.error: HTTPError is a
\* subclass of URLError, URLError of OSError)
ExcBases ==
    [HTTPError |-> {"HTTPError", "URLError", "OSError"},
     URLError |-> {"URLError", "OSError"},
     UnicodeDecodeError |-> {"UnicodeDecodeError", "UnicodeError", "ValueError"}]

\* except urllib.error.URLError: would also take DNS and connection failures
CatchesURLError(exc) == "URLError" \in ExcBases[exc]

\* except urllib.error.HTTPError as e:
Catches(exc) == "HTTPError" \in ExcBases[exc]

---------------------------------------------------------------------------
(* The program's literals.                                                 *)

\* ".svg"
DotSvg == <<46, 115, 118, 103>>

\* ".mermaid"
DotMermaid == <<46, 109, 101, 114, 109, 97, 105, 100>>

\* "meeting_flowchart.svg", the default of output_file
DefaultOutputFile ==
    <<109, 101, 101, 116, 105, 110, 103, 95, 102, 108, 111, 119, 99, 104, 97,
      114, 116>> \o DotSvg

\* "meeting_flowchart.md"
MarkdownFile ==
    <<109, 101, 101, 116, 105, 110, 103, 95, 102, 108, 111, 119, 99, 104, 97,
      114, 116, 46, 109, 100>>

\* "https://kroki.io/mermaid/svg/"
KrokiPrefix ==
    <<104, 116, 116, 112, 115, 58, 47, 47, 107, 114, 111, 107, 105, 46, 105,
      111, 47, 109, 101, 114, 109, 97, 105, 100, 47, 115, 118, 103, 47>>

\* what the four f.write calls put into the Markdown file:
\* "# Meeting Flowchart\n\n" "```mermaid\n" code "\n```\n"
MarkdownText(code) ==
    <<35, 32, 77, 101, 101, 116, 105, 110, 103, 32, 70, 108, 111, 119, 99, 104,
      97, 114, 116, 10, 10>>
    \o <<96, 96, 96, 109, 101, 114, 109, 97, 105, 100, 10>>
    \o code
    \o <<10, 96, 96, 96, 10>>

---------------------------------------------------------------------------
(* The inputs the model draws from.                                        *)

\* all sequences over alphabet of length lo..hi
SeqsUpTo(alphabet, lo, hi) == UNION {[1..n -> alphabet] : n \in lo..hi}

RECURSIVE Flatten(_)
Flatten(ss) == IF ss = <<>> THEN <<>> ELSE Head(ss) \o Flatten(Tail(ss))

\* the characters of a completion reply: newline, space, 'A', the euro sign
ReplyAlphabet == {10, 32, 65, 8364}

\* the characters of a description handed to the renderer: 'A', e-acute,
\* the euro sign, an emoji (1, 2, 3 and 4 bytes of UTF-8)
CodeAlphabet == {65, 233, 8364, 128512}

\* the bytes of a response body: '<', and the two bytes of e-acute, which
\* are valid UTF-8 only as the pair 195 169
BodyBytes == {60, 195, 169}

\* the pieces of an output_file name: "a", ".svg", "/"
NamePieces == {<<97>>, DotSvg, <<47>>}

Replies == SeqsUpTo(ReplyAlphabet, 0, MaxLen)
Codes == SeqsUpTo(CodeAlphabet, 0, MaxLen)
Bodies == SeqsUpTo(BodyBytes, 0, MaxBody)

\* file names: they do not end in "/"
Names ==
    {n \in {Flatten(ps) : ps \in SeqsUpTo(NamePieces, 1, MaxParts)} :
        n[Len(n)] # 47}

CompletionStubs ==
    {[kind |-> "reply", content |-> t] : t \in Replies}
    \cup {[kind |-> "fail", content |-> <<>>]}

RenderStubs ==
    {[kind |-> "ok", body |-> b] : b \in Bodies}
    \cup {[kind |-> "HTTPError", body |-> <<>>],
          [kind |-> "URLError", body |-> <<>>]}

\* a disk with no files
EmptyDisk == [n \in {} |-> <<>>]

\* a disk on which an earlier run left all three files ("old")
StaleDisk ==
    [n \in {MarkdownFile, DefaultOutputFile,
            replace(DefaultOutputFile, DotSvg, DotMermaid)} |->
        <<111, 108, 100>>]

Event(op, target, data) == [op |-> op, target |-> target, data |-> data]

---------------------------------------------------------------------------
(* generate_meeting_flowchart and __main__.                                *)

\* a variant of the failing completion call in which the failure is caught
\* and an empty flowchart is returned
MainGenerateSwallows ==
    /\ pc = "start"
    /\ completion_stub.kind = "fail"
    /\ events' = Append(events, Event("completion_request", <<>>, <<>>))
    /\ flowchart_code' = <<>>
    /\ pc' = "generated"
    /\ UNCHANGED <<run, completion_stub, render_stub, files, files0,
                   mermaid_code, output_file, url, text_file>>

\* client.chat.completions.create raises: nothing catches it, in
\* generate_meeting_flowchart or in __main__
MainGenerateRaises ==
    /\ pc = "start"
    /\ completion_stub.kind = "fail"
    /\ events' = Append(events, Event("completion_request", <<>>, <<>>))
    /\ pc' = "raised"
    /\ UNCHANGED <<run, completion_stub, render_stub, files, files0,
                   flowchart_code, mermaid_code, output_file, url, text_file>>

\* flowchart_code = generate_meeting_flowchart(...): the completion replies
\* and the reply's content is stripped
MainGenerate ==
    /\ pc = "start"
    /\ completion_stub.kind = "reply"
    /\ events' = Append(events, Event("completion_request", <<>>, <<>>))
    /\ flowchart_code' = strip(completion_stub.content)
    /\ pc' = "generated"
    /\ UNCHANGED <<run, completion_stub, render_stub, files, files0,
                   mermaid_code, output_file, url, text_file>>

\* with open("meeting_flowchart.md", "w") as f: four f.write calls
MainSaveMarkdown ==
    /\ pc = "generated"
    /\ LET data == utf8_encode(MarkdownText(flowchart_code)) IN
          /\ files' = OpenWrite(files, MarkdownFile, data)
          /\ events' = Append(events, Event("write_md", MarkdownFile, data))
    /\ pc' = "saved"
    /\ UNCHANGED <<run, completion_stub, render_stub, files0, flowchart_code,
                   mermaid_code, output_file, url, text_file>>

\* a variant of __main__ that renders before it saves the Markdown file
MainCallRenderEarly ==
    /\ pc = "generated"
    /\ mermaid_code' = flowchart_code
    /\ output_file' = DefaultOutputFile
    /\ pc' = "called"
    /\ UNCHANGED <<run, completion_stub, render_stub, files, files0,
                   flowchart_code, url, text_file, events>>

\* render_mermaid_to_svg(flowchart_code), output_file left to its default
MainCallRender ==
    /\ pc = "saved"
    /\ mermaid_code' = flowchart_code
    /\ output_file' = DefaultOutputFile
    /\ pc' = "called"
    /\ UNCHANGED <<run, completion_stub, render_stub, files, files0,
                   flowchart_code, url, text_file, events>>

\* the script is run again, on the disk the last run left, with the same
\* collaborator stubs
NextRun ==
    /\ pc \in {"returned", "raised"}
    /\ run < MaxRuns
    /\ run' = run + 1
    /\ files0' = files
    /\ pc' = "start"
    /\ flowchart_code' = <<>>
    /\ mermaid_code' = <<>>
    /\ output_file' = <<>>
    /\ url' = <<>>
    /\ text_file' = <<>>
    /\ events' = <<>>
    /\ UNCHANGED <<completion_stub, render_stub, files>>

---------------------------------------------------------------------------
(* render_mermaid_to_svg.                                                  *)

\* mermaid_bytes, encoded_mermaid and url
RenderBuildUrl ==
    /\ pc = "called"
    /\ LET mermaid_bytes == utf8_encode(mermaid_code)
           encoded_mermaid == utf8_decode(urlsafe_b64encode(mermaid_bytes)).text
       IN  url' = KrokiPrefix \o encoded_mermaid
    /\ pc' = "render_try"
    /\ UNCHANGED <<run, completion_stub, render_stub, files, files0,
                   flowchart_code, mermaid_code, output_file, text_file, events>>

\* urllib.request.urlopen(req) answers with a success response
RenderRequestOk ==
    /\ pc = "render_try"
    /\ render_stub.kind = "ok"
    /\ events' = Append(events, Event("render_request", url, <<>>))
    /\ pc' = "got_response"
    /\ UNCHANGED <<run, completion_stub, render_stub, files, files0,
                   flowchart_code, mermaid_code, output_file, url, text_file>>

\* urllib.request.urlopen(req) raises: the except clause takes it or it
\* leaves the function
RenderRequestRaises ==
    /\ pc = "render_try"
    /\ render_stub.kind # "ok"
    /\ events' = Append(events, Event("render_request", url, <<>>))
    /\ pc' = IF Catches(render_stub.kind) THEN "http_error" ELSE "raised"
    /\ UNCHANGED <<run, completion_stub, render_stub, files, files0,
                   flowchart_code, mermaid_code, output_file, url, text_file>>

\* svg_content = response.read().decode('utf-8'), then
\* with open(output_file, 'w') as f: f.write(svg_content)
RenderWriteImage ==
    /\ pc = "got_response"
    /\ LET svg_content == utf8_decode(render_stub.body) IN
          IF svg_content.ok
          THEN LET data == utf8_encode(svg_content.text) IN
                  /\ files' = OpenWrite(files, output_file, data)
                  /\ events' =
                        Append(events, Event("write_image", output_file, data))
                  /\ pc' = "returned"
          ELSE /\ pc' = IF Catches("UnicodeDecodeError")
                        THEN "http_error" ELSE "raised"
               /\ UNCHANGED <<files, events>>
    /\ UNCHANGED <<run, completion_stub, render_stub, files0, flowchart_code,
                   mermaid_code, output_file, url, text_file>>

\* a variant of the except clause that reports the error and writes nothing
HandleHTTPErrorSilently ==
    /\ pc = "http_error"
    /\ pc' = "returned"
    /\ UNCHANGED <<run, completion_stub, render_stub, files, files0,
                   flowchart_code, mermaid_code, output_file, url, text_file,
                   events>>

\* the except clause: text_file = output_file.replace('.svg', '.mermaid'),
\* then with open(text_file, 'w') as f: f.write(mermaid_code)
HandleHTTPError ==
    /\ pc = "http_error"
    /\ LET name == replace(output_file, DotSvg, DotMermaid)
           data == utf8_encode(mermaid_code)
       IN  /\ text_file' = name
           /\ files' = OpenWrite(files, name, data)
           /\ events' = Append(events, Event("write_fallback", name, data))
    /\ pc' = "returned"
    /\ UNCHANGED <<run, completion_stub, render_stub, files0, flowchart_code,
                   mermaid_code, output_file, url>>

---------------------------------------------------------------------------
(* Specifications.                                                         *)

\* the script, run up to MaxRuns times with the collaborators stubbed
Init ==
    /\ pc = "start"
    /\ run = 1
    /\ completion_stub \in CompletionStubs
    /\ render_stub \in RenderStubs
    /\ files \in {EmptyDisk, StaleDisk}
    /\ files0 = files
    /\ flowchart_code = <<>>
    /\ mermaid_code = <<>>
    /\ output_file = <<>>
    /\ url = <<>>
    /\ text_file = <<>>
    /\ events = <<>>

Next ==
    \/ MainGenerate
    \/ MainGenerateRaises
    \/ MainSaveMarkdown
    \/ MainCallRender
    \/ RenderBuildUrl
    \/ RenderRequestOk
    \/ RenderRequestRaises
    \/ RenderWriteImage
    \/ HandleHTTPError
    \/ NextRun

Spec == Init /\ [][Next]_vars

\* one call of render_mermaid_to_svg(mermaid_code, output_file) on an empty
\* disk, for every description, every output_file name and every outcome
InitRender ==
    /\ pc = "called"
    /\ run = 1
    /\ completion_stub = [kind |-> "fail", content |-> <<>>]
    /\ render_stub \in RenderStubs
    /\ files = EmptyDisk
    /\ files0 = files
    /\ flowchart_code = <<>>
    /\ mermaid_code \in Codes
    /\ output_file \in Names
    /\ url = <<>>
    /\ text_file = <<>>
    /\ events = <<>>

NextRender ==
    \/ RenderBuildUrl
    \/ RenderRequestOk
    \/ RenderRequestRaises
    \/ RenderWriteImage
    \/ HandleHTTPError

SpecRender == InitRender /\ [][NextRender]_vars

---------------------------------------------------------------------------
(* Vocabulary of the properties.                                           *)

Terminated == pc \in {"returned", "raised"}

\* the operations of the run's events, in order
Ops == [i \in 1..Len(events) |-> events[i].op]

IsWrite(e) == e.op \in {"write_md", "write_image", "write_fallback"}

\* the file writes of the run, in order
Writes == SelectSeq(events, IsWrite)

IsPrefix(s, t) == Len(s) <= Len(t) /\ SubSeq(t, 1, Len(s)) = s

EndsWith(s, p) ==
    Len(s) >= Len(p) /\ SubSeq(s, Len(s) - Len(p) + 1, Len(s)) = p

\* the last path segment of a URL: what follows its last '/'
RECURSIVE LastSegment(_)
LastSegment(u) ==
    IF \E i \in 1..Len(u) : u[i] = 47 THEN LastSegment(Tail(u)) ELSE u

IsB64(c) == \E i \in 1..64 : B64Alphabet[i] = c

B64Value(c) == CHOOSE i \in 0..63 : B64Alphabet[i + 1] = c

\* URL-safe base64 decoding, strict: groups of four characters of the
\* alphabet, '=' only as the padding of the last group, unused bits zero;
\* ok = FALSE stands for binascii.Error
RECURSIVE urlsafe_b64decode(_)
urlsafe_b64decode(s) ==
    LET bad == [ok |-> FALSE, bytes |-> <<>>]
        last == Len(s) = 4
        v1 == B64Value(s[1])
        v2 == B64Value(s[2])
        v3 == B64Value(s[3])
        v4 == B64Value(s[4])
        rest == urlsafe_b64decode(SubSeq(s, 5, Len(s)))
    IN  IF s = <<>> THEN [ok |-> TRUE, bytes |-> <<>>]
        ELSE IF Len(s) < 4 \/ ~IsB64(s[1]) \/ ~IsB64(s[2]) THEN bad
        ELSE IF s[3] = 61
             THEN IF last /\ s[4] = 61 /\ v2 % 16 = 0
                  THEN [ok |-> TRUE, bytes |-> <<v1 * 4 + (v2 \div 16)>>]
                  ELSE bad
        ELSE IF ~IsB64(s[3]) THEN bad
        ELSE IF s[4] = 61
             THEN IF last /\ v3 % 4 = 0
                  THEN [ok |-> TRUE,
                        bytes |-> <<v1 * 4 + (v2 \div 16),
                                    (v2 % 16) * 16 + (v3 \div 4)>>]
                  ELSE bad
        ELSE IF ~IsB64(s[4]) \/ ~rest.ok THEN bad
        ELSE [ok |-> TRUE,
              bytes |-> <<v1 * 4 + (v2 \div 16),
                          (v2 % 16) * 16 + (v3 \div 4),
                          (v3 % 4) * 64 + v4>> \o rest.bytes]

\* t is s with its leading and trailing whitespace removed and nothing else
\* changed: s is whitespace, t, whitespace, and t neither starts nor ends
\* with whitespace
IsTrimOf(t, s) ==
    /\ \E a \in 0..Len(s) :
          /\ a + Len(t) <= Len(s)
          /\ SubSeq(s, a + 1, a + Len(t)) = t
          /\ \A i \in 1..Len(s) : (i <= a \/ i > a + Len(t)) => IsSpace(s[i])
    /\ t # <<>> => ~IsSpace(t[1]) /\ ~IsSpace(t[Len(t)])

\* name with its final four characters (".svg") replaced by ".mermaid"
SwapExtension(name) ==
    SubSeq(name, 1, Len(name) - Len(DotSvg)) \o DotMermaid

---------------------------------------------------------------------------
(* The claims.                                                             *)

\* C1 (SpecRender): a call of render_mermaid_to_svg that returns normally
\* has written exactly one file, once: the image to output_file after a
\* success response, or the fallback text to text_file after an HTTP error.
\* One file exists on the disk that was empty before the call.
C1_ExactlyOneFileWritten ==
    pc = "returned" =>
        /\ Len(Writes) = 1
        /\ Cardinality(DOMAIN files) = 1
        /\ \/ /\ render_stub.kind = "ok"
              /\ Writes[1].op = "write_image"
              /\ Writes[1].target = output_file
              /\ DOMAIN files = {output_file}
           \/ /\ render_stub.kind = "HTTPError"
              /\ Writes[1].op = "write_fallback"
              /\ Writes[1].target = text_file
              /\ DOMAIN files = {text_file}

\* C1's case: the call returned on the fallback path
C1_Witness ==
    /\ pc = "returned"
    /\ render_stub.kind = "HTTPError"
    /\ Len(Writes) = 1

\* C2 (SpecRender), as claimed: after a success response the image file
\* holds the response body exactly and no fallback file was written.
C2_ImageEqualsBody ==
    (Terminated /\ render_stub.kind = "ok") =>
        /\ output_file \in DOMAIN files
        /\ files[output_file] = render_stub.body
        /\ \A i \in 1..Len(events) : events[i].op # "write_fallback"

\* C3 (SpecRender), as claimed: after an HTTP error the call returns
\* normally, the fallback file holds the description exactly and no file
\* exists under the image file's name, whatever output_file is.
C3_FallbackOnly ==
    (Terminated /\ render_stub.kind = "HTTPError") =>
        /\ pc = "returned"
        /\ text_file \in DOMAIN files
        /\ utf8_decode(files[text_file]) = [ok |-> TRUE, text |-> mermaid_code]
        /\ output_file \notin DOMAIN files

\* C4 (Spec): when the completion call fails the run ends with the failure:
\* no rendering request is issued and no file is written in that run.
C4_CompletionFailureEndsRun ==
    completion_stub.kind = "fail" =>
        /\ pc \in {"start", "raised"}
        /\ files = files0
        /\ \A i \in 1..Len(events) : events[i].op = "completion_request"
        /\ Len(events) <= 1

\* C4's case: the completion call has failed
C4_Witness ==
    /\ completion_stub.kind = "fail"
    /\ pc = "raised"
    /\ Len(events) = 1

\* C5 (SpecRender): a failure of the rendering request that is not an HTTP
\* error (a URLError; likewise a body that cannot be decoded) leaves
\* render_mermaid_to_svg as an exception: the fallback branch is not taken
\* and no file is written.
C5_OtherFailuresPropagate ==
    LET other == \/ render_stub.kind = "URLError"
                 \/ /\ render_stub.kind = "ok"
                    /\ ~utf8_decode(render_stub.body).ok
    IN  /\ (other /\ pc \notin {"called", "render_try", "got_response"}) =>
              pc = "raised"
        /\ other => /\ files = files0
                    /\ Writes = <<>>
                    /\ text_file = <<>>

\* C5's case: the request failed below HTTP and the exception left the call
C5_Witness ==
    /\ render_stub.kind = "URLError"
    /\ pc = "raised"
    /\ Len(events) = 1

\* C6 (Spec): a second (or later) run with the same collaborator responses
\* ends with the disk exactly as the run before it left it: the same files
\* with the same contents.
C6_RerunIdempotent ==
    (run >= 2 /\ Terminated) => files = files0

\* C6's case: the second run has ended after writing the Markdown file and
\* a non-empty image
C6_Witness ==
    /\ run = 2
    /\ pc = "returned"
    /\ Len(Writes) = 2
    /\ Writes[2].op = "write_image"
    /\ Writes[2].data # <<>>

\* C7 (SpecRender): the payload segment of the constructed URL decodes, by
\* URL-safe base64 and then UTF-8, to the description text.
C7_EncodingRoundTrip ==
    pc # "called" =>
        /\ StartsWith(url, KrokiPrefix)
        /\ LET payload == LastSegment(url)
               decoded == urlsafe_b64decode(payload)
           IN  /\ payload = SubSeq(url, Len(KrokiPrefix) + 1, Len(url))
               /\ decoded.ok
               /\ utf8_decode(decoded.bytes) =
                     [ok |-> TRUE, text |-> mermaid_code]

\* C7's case: a URL was built for a description with a non-ASCII character
\* whose encoding needs padding
C7_Witness ==
    /\ pc = "render_try"
    /\ \E i \in 1..Len(mermaid_code) : mermaid_code[i] > 127
    /\ url[Len(url)] = 61

\* C8 (Spec): generate_meeting_flowchart returns the reply with its leading
\* and trailing whitespace removed and nothing else changed (an empty reply
\* gives the empty text), and it writes no file.
C8_ReturnsTrimmedReply ==
    pc = "generated" =>
        /\ IsTrimOf(flowchart_code, completion_stub.content)
        /\ (completion_stub.content = <<>> => flowchart_code = <<>>)
        /\ files = files0
        /\ Writes = <<>>

\* C8's case: a reply with whitespace around a non-empty text was returned
C8_Witness ==
    /\ pc = "generated"
    /\ flowchart_code # <<>>
    /\ flowchart_code # completion_stub.content

\* C9 (Spec): the events of a run are a prefix of: completion request, write
\* of the Markdown file, rendering request, write of the image or of the
\* fallback file; so each happens at most once, in this order.
C9_FixedOrder ==
    \/ IsPrefix(Ops, <<"completion_request", "write_md", "render_request",
                       "write_image">>)
    \/ IsPrefix(Ops, <<"completion_request", "write_md", "render_request",
                       "write_fallback">>)

\* C9's case: a run went through all four events on the fallback path
C9_Witness ==
    /\ Len(events) = 4
    /\ events[4].op = "write_fallback"

\* C10 (SpecRender), as claimed: for an output_file ending in ".svg" the
\* fallback file's name is output_file with only that final ".svg"
\* replaced by ".mermaid".
C10_OnlyExtensionSwapped ==
    (pc = "returned" /\ render_stub.kind = "HTTPError"
        /\ EndsWith(output_file, DotSvg)) =>
        text_file = SwapExtension(output_file)

=============================================================================
